---- MODULE Spec2Model ----
(***************************************************************************)
(* Model of the iDeal / iDIN client (package idx): the request builder,    *)
(* the error-envelope check, signature validation and the interpretation  *)
(* of directory, transaction and status responses.                         *)
(*                                                                         *)
(* XML trees follow github.com/beevik/etree as the code uses it:           *)
(*   - an Element has a tag, a text, attributes, children and a parent;    *)
(*   - FindElement(s) with a path that starts with "/" is ABSOLUTE: the    *)
(*     search starts at the topmost ancestor of the element it is called   *)
(*     on, whatever that element is; a path without it starts at the       *)
(*     element itself;                                                     *)
(*   - FindElement returns nil when nothing matches, and Text() or         *)
(*     SelectAttrValue() on nil is a nil dereference (a Go panic).         *)
(* A tree is a sequence of elements; an element is named by its index, 0   *)
(* is nil. Paths are written as sequences of tags, not parsed from text.   *)
(***************************************************************************)
EXTENDS Integers, Sequences, FiniteSets, TLC

VARIABLES client, handles, pc, call

vars == <<client, handles, pc, call>>

-----------------------------------------------------------------------------
(* Bounds of the model.                                                    *)

MaxCountries == 2

MaxIssuers == 2

MaxAttrs == 2

MaxHandles == 2

-----------------------------------------------------------------------------
(* TransactionStatus enum, client.go:37-44.                                *)

InvalidStatus == 0

Success == 1

Cancelled == 2

Expired == 3

Failure == 4

Open == 5

\* TransactionStatus.String
StatusString(status) ==
    CASE status = Success -> "Success"
      [] status = Cancelled -> "Cancelled"
      [] status = Expired -> "Expired"
      [] status = Failure -> "Failure"
      [] status = Open -> "Open"
      [] OTHER -> "InvalidStatus"

\* Bits of the iDIN attribute bitmask.
IDINServiceIDBIN == 16384

IDINServiceIDName == 4096

-----------------------------------------------------------------------------
(* etree elements and paths.                                               *)

Element(tag, parent) ==
    [tag |-> tag, text |-> "", attr |-> <<>>, kids |-> <<>>, parent |-> parent]

\* etree.NewDocument: the document is itself an element (index 1, no tag).
NewDocument == <<Element("", 0)>>

\* e.CreateElement(tag): a new last child of p; its index is Len(t) + 1.
CreateElement(t, p, tag) ==
    Append([t EXCEPT ![p].kids = Append(@, Len(t) + 1)], Element(tag, p))

SetText(t, e, s) == [t EXCEPT ![e].text = s]

\* e.CreateElement(tag).SetText(s)
CreateText(t, p, tag, s) == SetText(CreateElement(t, p, tag), Len(t) + 1, s)

\* e.CreateAttr(key, value): replaces an attribute of the same key, else appends.
CreateAttr(t, e, key, value) ==
    LET as == t[e].attr
        hit == {i \in 1..Len(as) : as[i][1] = key}
    IN  IF hit = {}
        THEN [t EXCEPT ![e].attr = Append(@, <<key, value>>)]
        ELSE [t EXCEPT ![e].attr = [i \in 1..Len(as) |->
                                       IF i \in hit THEN <<key, value>> ELSE as[i]]]

\* e.SelectAttrValue(key, dflt) on a non-nil element.
SelectAttrValue(t, e, key, dflt) ==
    LET as == t[e].attr
        hit == {i \in 1..Len(as) : as[i][1] = key}
    IN  IF hit = {} THEN dflt ELSE as[CHOOSE i \in hit : \A j \in hit : i <= j][2]

RemoveAt(s, i) == SubSeq(s, 1, i - 1) \o SubSeq(s, i + 1, Len(s))

InsertAt(s, i, x) == SubSeq(s, 1, i - 1) \o <<x>> \o SubSeq(s, i, Len(s))

IndexOf(s, x) == CHOOSE i \in 1..Len(s) : s[i] = x

\* p.InsertChild(ex, c): c is taken out of its present parent and put before
\* ex among the children of p (appended when ex is no child of p).
InsertChild(t, p, ex, c) ==
    LET old == t[c].parent
        t1 == IF old = 0 THEN t
              ELSE [t EXCEPT ![old].kids = RemoveAt(@, IndexOf(@, c))]
        ks == t1[p].kids
        ks2 == IF \E i \in 1..Len(ks) : ks[i] = ex
               THEN InsertAt(ks, IndexOf(ks, ex), c)
               ELSE Append(ks, c)
    IN  [t1 EXCEPT ![p].kids = ks2, ![c].parent = p]

\* selectRoot: the topmost ancestor of e.
RECURSIVE RootOf(_, _)
RootOf(t, e) == IF t[e].parent = 0 THEN e ELSE RootOf(t, t[e].parent)

\* selectChildrenByTag applied to each candidate in turn.
RECURSIVE SelectChildrenByTag(_, _, _)
SelectChildrenByTag(t, cands, tag) ==
    IF cands = <<>> THEN <<>>
    ELSE SelectSeq(t[Head(cands)].kids, LAMBDA k : t[k].tag = tag)
         \o SelectChildrenByTag(t, Tail(cands), tag)

RECURSIVE Traverse(_, _, _)
Traverse(t, cands, segs) ==
    IF segs = <<>> THEN cands
    ELSE Traverse(t, SelectChildrenByTag(t, cands, Head(segs)), Tail(segs))

\* A path "/a/b" is Abs(<<"a", "b">>), a path "a/b" is Rel(<<"a", "b">>).
Abs(segs) == [abs |-> TRUE, segs |-> segs]

Rel(segs) == [abs |-> FALSE, segs |-> segs]

\* e.FindElements(path): the matches in document order.
FindElements(t, e, path) ==
    Traverse(t, <<IF path.abs THEN RootOf(t, e) ELSE e>>, path.segs)

\* e.FindElement(path): the first match, or nil (0).
FindElement(t, e, path) ==
    LET r == FindElements(t, e, path) IN IF r = <<>> THEN 0 ELSE r[1]

\* e.ChildElements()
ChildElements(t, e) == t[e].kids

-----------------------------------------------------------------------------
(* Responses of the acquirer: the documents the transport can deliver.     *)
(* A body is what doc.ReadFrom makes of the HTTP body: wellformed or not,  *)
(* the tree, and the enveloped signature (who signed, and whether the      *)
(* content is still the signed content).                                   *)

Absent == "<absent>"

CreateOpt(t, p, tag, s) == IF s = Absent THEN t ELSE CreateText(t, p, tag, s)

\* <AcquirerErrorRes><Error>errorCode, errorMessage, errorDetail, consumerMessage
ErrorResTree(code, message, detail, consumer) ==
    LET t1 == CreateElement(NewDocument, 1, "AcquirerErrorRes")
        t2 == CreateElement(t1, 2, "Error")
        t3 == CreateOpt(t2, 3, "errorCode", code)
        t4 == CreateOpt(t3, 3, "errorMessage", message)
        t5 == CreateOpt(t4, 3, "errorDetail", detail)
    IN  CreateOpt(t5, 3, "consumerMessage", consumer)

\* The root element of a status response: <AcquirerStatusRes>, and with wrap
\* a second <AcquirerStatusRes> inside it. The last element is the inner one.
StatusResRoot(wrap) ==
    LET t1 == CreateElement(NewDocument, 1, "AcquirerStatusRes")
    IN  IF wrap THEN CreateElement(t1, 2, "AcquirerStatusRes") ELSE t1

PayloadTags == <<"consumerName", "consumerIBAN", "consumerBIC", "amount", "currency">>

PayloadTexts == <<"J. Jansen", "NL44RABO0123456789", "RABONL2U", "1.00", "EUR">>

RECURSIVE CreateTexts(_, _, _, _)
CreateTexts(t, p, tags, texts) ==
    IF tags = <<>> THEN t
    ELSE CreateTexts(CreateText(t, p, Head(tags), Head(texts)), p, Tail(tags), Tail(texts))

\* iDeal status response: Transaction/transactionID, status and the payload.
IDealStatusTree(wrap, echo, status, payload) ==
    LET t1 == StatusResRoot(wrap)
        tr == Len(t1) + 1
        t2 == CreateElement(t1, Len(t1), "Transaction")
        t3 == CreateOpt(t2, tr, "transactionID", echo)
        t4 == CreateOpt(t3, tr, "status", status)
    IN  IF payload THEN CreateTexts(t4, tr, PayloadTags, PayloadTexts) ELSE t4

RECURSIVE CreateEncrypted(_, _, _)
CreateEncrypted(t, p, tokens) ==
    IF tokens = <<>> THEN t
    ELSE LET t1 == CreateElement(t, p, "EncryptedAttribute")
         IN  CreateEncrypted(CreateText(t1, Len(t1), "EncryptedData", Head(tokens)),
                             p, Tail(tokens))

NoStatusCode == "<no StatusCode>"

\* iDIN status response: Transaction/transactionID and the SAML container with
\* Response/Status/StatusCode[@Value] and the encrypted attributes.
IDINStatusTree(wrap, echo, value, tokens) ==
    LET t1 == StatusResRoot(wrap)
        tr == Len(t1) + 1
        t2 == CreateElement(t1, Len(t1), "Transaction")
        t3 == CreateOpt(t2, tr, "transactionID", echo)
        co == Len(t3) + 1
        t4 == CreateElement(t3, tr, "container")
        t5 == CreateElement(t4, co, "Response")
        t6 == CreateElement(t5, co + 1, "Status")
        t7 == IF value = NoStatusCode THEN t6
              ELSE LET u == CreateElement(t6, co + 2, "StatusCode")
                   IN  IF value = Absent THEN u ELSE CreateAttr(u, Len(u), "Value", value)
        as == Len(t7) + 1
        t8 == CreateElement(t7, co + 1, "Assertion")
        t9 == CreateElement(t8, as, "AttributeStatement")
    IN  CreateEncrypted(t9, as + 1, tokens)

\* Transaction response: Issuer/issuerAuthenticationURL, Transaction/transactionID.
TrxResTree(url, id) ==
    LET t1 == CreateElement(NewDocument, 1, "AcquirerTrxRes")
        t2 == CreateElement(t1, 2, "Issuer")
        t3 == CreateOpt(t2, 3, "issuerAuthenticationURL", url)
        tr == Len(t3) + 1
        t4 == CreateElement(t3, 2, "Transaction")
    IN  CreateOpt(t4, tr, "transactionID", id)

\* The issuers of the i-th country of a directory response.
IssuerPool ==
    << << <<"INGBNL2A", "ING">>, <<"RABONL2U", "Rabobank">>, <<"ABNANL2A", "ABN AMRO">> >>,
       << <<"GEBABEBB", "BNP">>, <<"KREDBEBB", "KBC">>, <<"BBRUBEBB", "ING Belgium">> >>,
       << <<"DEUTDEFF", "Deutsche Bank">>, <<"COBADEFF", "Commerzbank">>, <<"GENODEFF", "DZ">> >> >>

RECURSIVE CreateIssuers(_, _, _)
CreateIssuers(t, p, issuers) ==
    IF issuers = <<>> THEN t
    ELSE LET t1 == CreateElement(t, p, "Issuer")
             is == Len(t1)
             t2 == CreateText(t1, is, "issuerID", Head(issuers)[1])
             t3 == CreateText(t2, is, "issuerName", Head(issuers)[2])
         IN  CreateIssuers(t3, p, Tail(issuers))

RECURSIVE CreateCountries(_, _, _)
CreateCountries(t, p, countries) ==
    IF countries = <<>> THEN t
    ELSE LET t1 == CreateElement(t, p, "Country")
             co == Len(t1)
             t2 == CreateText(t1, co, "countryNames", Head(countries).name)
         IN  CreateCountries(CreateIssuers(t2, co, Head(countries).issuers),
                             p, Tail(countries))

\* Directory response: Directory/Country*/(countryNames, Issuer*/(issuerID, issuerName)).
DirectoryResTree(countries) ==
    LET t1 == CreateElement(NewDocument, 1, "DirectoryRes")
        t2 == CreateElement(t1, 2, "Directory")
    IN  CreateCountries(t2, 3, countries)

Body(tree, sig) ==
    [wellformed |-> TRUE, tree |-> tree, signer |-> sig.signer, intact |-> sig.intact]

\* A body that is no XML, and a body with no element at all.
Garbage == [wellformed |-> FALSE, tree |-> NewDocument, signer |-> "none", intact |-> TRUE]

EmptyDoc == [wellformed |-> TRUE, tree |-> NewDocument, signer |-> "none", intact |-> TRUE]

SigAcquirer == [signer |-> "acquirer", intact |-> TRUE]

SigOther == [signer |-> "other", intact |-> TRUE]

SigTampered == [signer |-> "acquirer", intact |-> FALSE]

Unsigned == [signer |-> "none", intact |-> TRUE]

Sigs == {SigAcquirer, SigOther, SigTampered, Unsigned}

-----------------------------------------------------------------------------
(* Values returned by the operations.                                      *)

NoError == [type |-> "nil"]

\* errors.New(msg), and the errors of the libraries.
Error(msg) == [type |-> "error", msg |-> msg]

\* A call ends by returning (a value, an error) or by a panic.
Return(val, err) == [kind |-> IF err = NoError THEN "ok" ELSE "err", val |-> val, err |-> err]

Panic(why) == [kind |-> "panic", val |-> <<>>, err |-> Error(why)]

NilDeref == "nil pointer dereference"

\* What a transport exchange delivers: a transport error, or a status line and a body.
NetErr == [neterr |-> TRUE, code |-> 0, status |-> "", body |-> Garbage]

Response(code, status, body) ==
    [neterr |-> FALSE, code |-> code, status |-> status, body |-> body]

BadURL == "://bank"

\* net/http.NewRequest fails on a URL that does not parse.
NewRequestFails(url) == url = BadURL

\* A request that reads the body of the response whatever its status code.
CommonClient_request_AnyStatus(c, http) ==
    IF NewRequestFails(c.BaseURL)
    THEN [nil |-> TRUE, doc |-> Garbage, err |-> Error("parse BaseURL"), exchanges |-> 0]
    ELSE IF http.neterr
    THEN [nil |-> TRUE, doc |-> Garbage, err |-> Error("transport"), exchanges |-> 1]
    ELSE IF ~http.body.wellformed
    THEN [nil |-> TRUE, doc |-> Garbage, err |-> Error("XML syntax error"), exchanges |-> 1]
    ELSE [nil |-> FALSE, doc |-> http.body, err |-> NoError, exchanges |-> 1]

\* CommonClient.request: [nil, doc, err, exchanges]; doc is meaningful when ~nil.
CommonClient_request(c, http) ==
    IF NewRequestFails(c.BaseURL)
    THEN [nil |-> TRUE, doc |-> Garbage, err |-> Error("parse BaseURL"), exchanges |-> 0]
    ELSE IF http.neterr
    THEN [nil |-> TRUE, doc |-> Garbage, err |-> Error("transport"), exchanges |-> 1]
    ELSE IF http.code # 200
    THEN [nil |-> TRUE, doc |-> Garbage,
          err |-> Error("idx: HTTP error: " \o http.status), exchanges |-> 1]
    ELSE IF ~http.body.wellformed
    THEN [nil |-> TRUE, doc |-> Garbage, err |-> Error("XML syntax error"), exchanges |-> 1]
    ELSE [nil |-> FALSE, doc |-> http.body, err |-> NoError, exchanges |-> 1]

ErrorPath(field) == Abs(<<"AcquirerErrorRes", "Error", field>>)

ErrorFields == <<"errorCode", "errorMessage", "errorDetail", "consumerMessage">>

\* &AcquirerError{...} read from the document doc.
AcquirerError(t) ==
    [type |-> "AcquirerError",
     ErrorCode |-> t[FindElement(t, 1, ErrorPath("errorCode"))].text,
     ErrorMessage |-> t[FindElement(t, 1, ErrorPath("errorMessage"))].text,
     ErrorDetail |-> t[FindElement(t, 1, ErrorPath("errorDetail"))].text,
     ConsumerMessage |-> t[FindElement(t, 1, ErrorPath("consumerMessage"))].text]

\* A request that does not look for the error envelope.
ErrorEnvelopeCheck_Never(r) ==
    IF ~r.nil /\ ChildElements(r.doc.tree, 1) = <<>>
    THEN [panic |-> TRUE, why |-> "index out of range", nil |-> TRUE, doc |-> Garbage,
          err |-> NoError, exchanges |-> r.exchanges]
    ELSE [panic |-> FALSE, why |-> "", nil |-> r.nil, doc |-> r.doc, err |-> r.err,
          exchanges |-> r.exchanges]

\* The check for an error envelope, the same text in both clients' request:
\* [panic, nil, doc, err, exchanges].
ErrorEnvelopeCheck(r) ==
    LET t == r.doc.tree
        P(why) == [panic |-> TRUE, why |-> why, nil |-> TRUE, doc |-> Garbage,
                   err |-> NoError, exchanges |-> r.exchanges]
        R(nil, doc, err) == [panic |-> FALSE, why |-> "", nil |-> nil, doc |-> doc,
                             err |-> err, exchanges |-> r.exchanges]
    IN  IF r.nil THEN R(TRUE, r.doc, r.err)
        ELSE IF ChildElements(t, 1) = <<>> THEN P("index out of range")
        ELSE IF t[ChildElements(t, 1)[1]].tag = "AcquirerErrorRes"
        THEN IF \E i \in 1..Len(ErrorFields) :
                    FindElement(t, 1, ErrorPath(ErrorFields[i])) = 0
             THEN P(NilDeref)
             ELSE R(TRUE, Garbage, AcquirerError(t))
        ELSE R(FALSE, r.doc, r.err)

\* IDealClient.request
IDealClient_request(c, http) == ErrorEnvelopeCheck(CommonClient_request(c, http))

\* IDINClient.request
IDINClient_request(c, http) == ErrorEnvelopeCheck(CommonClient_request(c, http))

\* What dsig's ValidationContext.Validate says of a signature it rejects.
SignatureError(c, doc) ==
    IF doc.signer = "none" THEN Error("dsig: missing signature")
    ELSE IF doc.signer # c.AcquirerCert THEN Error("dsig: untrusted certificate")
    ELSE Error("dsig: signature could not be verified")

\* A validation that takes the signature of any certificate.
validateMessage_AnyCertificate(c, doc) ==
    LET root == ChildElements(doc.tree, 1)[1]
    IN  IF doc.signer # "none" /\ doc.intact
        THEN [err |-> NoError, t |-> [doc.tree EXCEPT ![root].parent = 0], e |-> root]
        ELSE [err |-> SignatureError(c, doc), t |-> <<>>, e |-> 0]

\* CommonClient.validateMessage on a document with a root element: the root
\* element, detached from the document (Validate returns a copy of it), or
\* the error of the validation: [err, t, e].
validateMessage(c, doc) ==
    LET root == ChildElements(doc.tree, 1)[1]
    IN  IF doc.signer = c.AcquirerCert /\ doc.intact
        THEN [err |-> NoError, t |-> [doc.tree EXCEPT ![root].parent = 0], e |-> root]
        ELSE [err |-> SignatureError(c, doc), t |-> <<>>, e |-> 0]

\* What one call of an operation did: the value it returned, whether it came to
\* validate a signature, and the number of exchanges with the acquirer.
Outcome(ret, validated, exchanges) ==
    [ret |-> ret, validated |-> validated, exchanges |-> exchanges]

-----------------------------------------------------------------------------
(* Directory.                                                              *)

\* make(map[string][]Issuer)
EmptyMap == [k \in {} |-> <<>>]

\* m[k] = append(m[k], v)
MapAppend(m, k, v) ==
    [x \in DOMAIN m \cup {k} |->
        IF x = k THEN (IF k \in DOMAIN m THEN Append(m[k], v) ELSE <<v>>) ELSE m[x]]

Issuer(issuerID, issuerName) == [IssuerID |-> issuerID, IssuerName |-> issuerName]

CountryNamesPath == Abs(<<"Directory", "Country", "countryNames">>)

IssuerPath == Abs(<<"Directory", "Country", "Issuer">>)

IssuerIDPath == Abs(<<"Directory", "Country", "Issuer", "issuerID">>)

IssuerNamePath == Abs(<<"Directory", "Country", "Issuer", "issuerName">>)

\* The inner loop of parseDirectoryRequest (client.go:179-183) over the issuer
\* elements left; acc is [panic, Issuers].
RECURSIVE ParseIssuers(_, _, _, _)
ParseIssuers(t, issuerEls, countryName, acc) ==
    IF acc.panic \/ issuerEls = <<>> THEN acc
    ELSE LET issuerEl == Head(issuerEls)
             idEl == FindElement(t, issuerEl, IssuerIDPath)
             nameEl == FindElement(t, issuerEl, IssuerNamePath)
         IN  IF idEl = 0 \/ nameEl = 0
             THEN [acc EXCEPT !.panic = TRUE]
             ELSE ParseIssuers(t, Tail(issuerEls), countryName,
                      [acc EXCEPT !.Issuers =
                          MapAppend(@, countryName, Issuer(t[idEl].text, t[nameEl].text))])

\* The outer loop of parseDirectoryRequest (client.go:177-184) over the country
\* elements left.
RECURSIVE ParseCountries(_, _, _)
ParseCountries(t, countryEls, acc) ==
    IF acc.panic \/ countryEls = <<>> THEN acc
    ELSE LET countryEl == Head(countryEls)
             nameEl == FindElement(t, countryEl, CountryNamesPath)
         IN  IF nameEl = 0
             THEN [acc EXCEPT !.panic = TRUE]
             ELSE ParseCountries(t, Tail(countryEls),
                      ParseIssuers(t, FindElements(t, countryEl, IssuerPath),
                                   t[nameEl].text, acc))

\* CommonClient.parseDirectoryRequest(msg): [panic, Issuers].
parseDirectoryRequest(t, msg) ==
    ParseCountries(t, FindElements(t, msg, Abs(<<"Directory", "Country">>)),
                   [panic |-> FALSE, Issuers |-> EmptyMap])

\* The body shared by the two DirectoryRequest methods once request returned r.
DirectoryRequestAfter(c, r) ==
    IF r.panic THEN Outcome(Panic(r.why), FALSE, r.exchanges)
    ELSE IF r.err # NoError THEN Outcome(Return(<<>>, r.err), FALSE, r.exchanges)
    ELSE LET v == validateMessage(c, r.doc)
         IN  IF v.err # NoError THEN Outcome(Return(<<>>, v.err), TRUE, r.exchanges)
             ELSE LET d == parseDirectoryRequest(v.t, v.e)
                  IN  IF d.panic THEN Outcome(Panic(NilDeref), TRUE, r.exchanges)
                      ELSE Outcome(Return([Issuers |-> d.Issuers], NoError),
                                   TRUE, r.exchanges)

\* IDealClient.DirectoryRequest
IDealClient_DirectoryRequest(c, http) == DirectoryRequestAfter(c, IDealClient_request(c, http))

\* IDINClient.DirectoryRequest
IDINClient_DirectoryRequest(c, http) == DirectoryRequestAfter(c, IDINClient_request(c, http))

-----------------------------------------------------------------------------
(* Transaction status, iDeal.                                              *)

\* A status switch that takes every unknown text for Open.
IDealStatus_DefaultOpen(statusString) ==
    CASE statusString = "Success" -> Success
      [] statusString = "Cancelled" -> Cancelled
      [] statusString = "Expired" -> Expired
      [] statusString = "Failure" -> Failure
      [] OTHER -> Open

\* The switch of IDealClient.TransactionStatus.
IDealStatus(statusString) ==
    CASE statusString = "Success" -> Success
      [] statusString = "Cancelled" -> Cancelled
      [] statusString = "Expired" -> Expired
      [] statusString = "Failure" -> Failure
      [] statusString = "Open" -> Open
      [] OTHER -> InvalidStatus

IDealTransactionStatus(status, name, iban, bic, amount, currency) ==
    [Status |-> status, ConsumerName |-> name, ConsumerIBAN |-> iban,
     ConsumerBIC |-> bic, Amount |-> amount, Currency |-> currency]

TransactionPath(field) == Abs(<<"Transaction", field>>)

\* A result that carries the payload of the response with every status.
IDealStatusResult_AlwaysPayload(t, e) ==
    LET stEl == FindElement(t, e, TransactionPath("status"))
        F(i) == FindElement(t, e, TransactionPath(PayloadTags[i]))
        status == IDealStatus(t[stEl].text)
    IN  IF stEl = 0 THEN Panic(NilDeref)
        ELSE IF status = InvalidStatus
        THEN Return(<<>>, Error("ideal: invalid status: " \o t[stEl].text))
        ELSE IF \E i \in 1..Len(PayloadTags) : F(i) = 0
        THEN (IF status = Success THEN Panic(NilDeref)
              ELSE Return(IDealTransactionStatus(status, "", "", "", "", ""), NoError))
        ELSE Return(IDealTransactionStatus(status, t[F(1)].text, t[F(2)].text,
                        t[F(3)].text, t[F(4)].text, t[F(5)].text), NoError)

\* IDealClient.TransactionStatus from the status text on (lines 92-127).
IDealStatusResult(t, e) ==
    LET stEl == FindElement(t, e, TransactionPath("status"))
        F(i) == FindElement(t, e, TransactionPath(PayloadTags[i]))
    IN  IF stEl = 0 THEN Panic(NilDeref)
        ELSE LET statusString == t[stEl].text
                 status == IDealStatus(statusString)
             IN  IF status = InvalidStatus
                 THEN Return(<<>>, Error("ideal: invalid status: " \o statusString))
                 ELSE IF status = Success
                 THEN IF \E i \in 1..Len(PayloadTags) : F(i) = 0
                      THEN Panic(NilDeref)
                      ELSE Return(IDealTransactionStatus(status, t[F(1)].text,
                                      t[F(2)].text, t[F(3)].text, t[F(4)].text,
                                      t[F(5)].text), NoError)
                 ELSE Return(IDealTransactionStatus(status, "", "", "", "", ""), NoError)

\* An interpretation that does not compare the echoed identifier.
IDealInterpretStatus_NoEchoCheck(t, e, trxid) ==
    IF FindElement(t, e, TransactionPath("transactionID")) = 0 THEN Panic(NilDeref)
    ELSE IDealStatusResult(t, e)

\* IDealClient.TransactionStatus from the validated response (t, e) on
\* (lines 87-127).
IDealInterpretStatus(t, e, trxid) ==
    LET idEl == FindElement(t, e, TransactionPath("transactionID"))
    IN  IF idEl = 0 THEN Panic(NilDeref)
        ELSE IF t[idEl].text # trxid
        THEN Return(<<>>, Error("idx: returned transaction ID does not match"))
        ELSE IDealStatusResult(t, e)

\* IDealClient.TransactionStatus
IDealClient_TransactionStatus(c, trxid, http) ==
    LET r == IDealClient_request(c, http)
    IN  IF r.panic THEN Outcome(Panic(r.why), FALSE, r.exchanges)
        ELSE IF r.err # NoError THEN Outcome(Return(<<>>, r.err), FALSE, r.exchanges)
        ELSE LET v == validateMessage(c, r.doc)
             IN  IF v.err # NoError THEN Outcome(Return(<<>>, v.err), TRUE, r.exchanges)
                 ELSE Outcome(IDealInterpretStatus(v.t, v.e, trxid), TRUE, r.exchanges)

-----------------------------------------------------------------------------
(* Transaction status, iDIN.                                               *)

SAMLStatus(suffix) == "urn:oasis:names:tc:SAML:2.0:status:" \o suffix

\* A status switch that takes every unknown URI for Open.
IDINStatus_DefaultOpen(statusString) ==
    CASE statusString = SAMLStatus("Success") -> Success
      [] statusString = SAMLStatus("Cancelled") -> Cancelled
      [] statusString = SAMLStatus("Expired") -> Expired
      [] statusString = SAMLStatus("Failure") -> Failure
      [] OTHER -> Open

\* The switch of IDINClient.TransactionStatus; InvalidStatus stands for its
\* default branch, which returns the error.
IDINStatus(statusString) ==
    CASE statusString = SAMLStatus("Success") -> Success
      [] statusString = SAMLStatus("Cancelled") -> Cancelled
      [] statusString = SAMLStatus("Expired") -> Expired
      [] statusString = SAMLStatus("Failure") -> Failure
      [] statusString = SAMLStatus("Open") -> Open
      [] OTHER -> InvalidStatus

\* What the encrypted attributes of the responses hold: the key each was
\* encrypted for, the attribute name and the attribute values.
Plaintext(token) ==
    CASE token = "enc:initials" ->
            [key |-> "merchant.key", name |-> "consumer.initials", values |-> <<"J", "JJ">>]
      [] token = "enc:bin" ->
            [key |-> "merchant.key", name |-> "consumer.bin", values |-> <<"BIN1">>]
      [] token = "enc:initials2" ->
            [key |-> "merchant.key", name |-> "consumer.initials", values |-> <<"K">>]
      [] token = "enc:novalue" ->
            [key |-> "merchant.key", name |-> "consumer.empty", values |-> <<>>]
      [] OTHER ->
            [key |-> "another.key", name |-> "consumer.secret", values |-> <<"S">>]

Tokens == {"enc:initials", "enc:bin", "enc:initials2", "enc:novalue", "enc:other"}

RECURSIVE CreateValues(_, _, _)
CreateValues(t, p, values) ==
    IF values = <<>> THEN t
    ELSE CreateValues(CreateText(t, p, "AttributeValue", Head(values)), p, Tail(values))

\* xmlenc.DecryptElement(el, key): the error, or the decrypted element (the
\* first element of its tree) that holds <Attribute Name=..><AttributeValue>*.
DecryptElement(t, el, key) ==
    LET p == Plaintext(t[el].text)
        t1 == CreateElement(<<Element("EncryptedAttribute", 0)>>, 1, "Attribute")
        t2 == CreateAttr(t1, 2, "Name", p.name)
    IN  IF p.key # key
        THEN [err |-> Error("xmlenc: decryption failed"), t |-> <<>>, e |-> 0]
        ELSE [err |-> NoError, t |-> CreateValues(t2, 2, p.values), e |-> 1]

\* result.Attributes[key] = value
MapSet(m, k, v) == [x \in DOMAIN m \cup {k} |-> IF x = k THEN v ELSE m[x]]

\* A loop that leaves out the attributes that do not decrypt.
RECURSIVE DecryptAttributes_SkipFailed(_, _, _, _)
DecryptAttributes_SkipFailed(t, els, key, acc) ==
    IF acc.kind # "ok" \/ els = <<>> THEN acc
    ELSE LET d == DecryptElement(t, Head(els), key)
             atEl == FindElement(d.t, d.e, Rel(<<"Attribute">>))
             vaEl == FindElement(d.t, d.e, Rel(<<"Attribute", "AttributeValue">>))
         IN  IF d.err # NoError THEN DecryptAttributes_SkipFailed(t, Tail(els), key, acc)
             ELSE IF atEl = 0 \/ vaEl = 0 THEN [acc EXCEPT !.kind = "panic"]
             ELSE DecryptAttributes_SkipFailed(t, Tail(els), key,
                      [acc EXCEPT !.m = MapSet(@, SelectAttrValue(d.t, atEl, "Name", ""),
                                               d.t[vaEl].text)])

\* The loop of IDINClient.TransactionStatus over the EncryptedData elements
\* left; acc is [kind ("ok", "err", "panic"), err, m].
RECURSIVE DecryptAttributes(_, _, _, _)
DecryptAttributes(t, els, key, acc) ==
    IF acc.kind # "ok" \/ els = <<>> THEN acc
    ELSE LET d == DecryptElement(t, Head(els), key)
             atEl == FindElement(d.t, d.e, Rel(<<"Attribute">>))
             vaEl == FindElement(d.t, d.e, Rel(<<"Attribute", "AttributeValue">>))
         IN  IF d.err # NoError THEN [acc EXCEPT !.kind = "err", !.err = d.err]
             ELSE IF atEl = 0 \/ vaEl = 0 THEN [acc EXCEPT !.kind = "panic"]
             ELSE DecryptAttributes(t, Tail(els), key,
                      [acc EXCEPT !.m = MapSet(@, SelectAttrValue(d.t, atEl, "Name", ""),
                                               d.t[vaEl].text)])

\* IDINTransactionStatus; Attributes is nil unless made.
IDINTransactionStatus(status, isNil, attributes) ==
    [Status |-> status, Attributes |-> [nil |-> isNil, m |-> attributes]]

NoAttributes == [k \in {} |-> ""]

StatusResPath(rest) == Abs(<<"AcquirerStatusRes", "Transaction">> \o rest)

EncryptedDataPath ==
    StatusResPath(<<"container", "Response", "Assertion", "AttributeStatement",
                    "EncryptedAttribute", "EncryptedData">>)

\* IDINClient.TransactionStatus from the validated response (t, e) on.
IDINInterpretStatus(c, t, e, trxid) ==
    LET idEl == FindElement(t, e, StatusResPath(<<"transactionID">>))
        statusCodeEl ==
            FindElement(t, e, StatusResPath(<<"container", "Response", "Status", "StatusCode">>))
    IN  IF idEl = 0 THEN Panic(NilDeref)
        ELSE IF t[idEl].text # trxid
        THEN Return(<<>>, Error("idx: returned transaction ID does not match"))
        ELSE IF statusCodeEl = 0 THEN Panic(NilDeref)
        ELSE LET statusString == SelectAttrValue(t, statusCodeEl, "Value", "")
                 status == IDINStatus(statusString)
             IN  IF status = InvalidStatus
                 THEN Return(<<>>, Error("idin: invalid status: " \o statusString))
                 ELSE IF status = Success
                 THEN LET a == DecryptAttributes(t, FindElements(t, e, EncryptedDataPath),
                                   c.PrivateKey,
                                   [kind |-> "ok", err |-> NoError, m |-> NoAttributes])
                      IN  IF a.kind = "panic" THEN Panic(NilDeref)
                          ELSE IF a.kind = "err" THEN Return(<<>>, a.err)
                          ELSE Return(IDINTransactionStatus(status, FALSE, a.m), NoError)
                 ELSE Return(IDINTransactionStatus(status, TRUE, NoAttributes), NoError)

\* IDINClient.TransactionStatus
IDINClient_TransactionStatus(c, trxid, http) ==
    LET r == IDINClient_request(c, http)
    IN  IF r.panic THEN Outcome(Panic(r.why), FALSE, r.exchanges)
        ELSE IF r.err # NoError THEN Outcome(Return(<<>>, r.err), FALSE, r.exchanges)
        ELSE LET v == validateMessage(c, r.doc)
             IN  IF v.err # NoError THEN Outcome(Return(<<>>, v.err), TRUE, r.exchanges)
                 ELSE Outcome(IDINInterpretStatus(c, v.t, v.e, trxid), TRUE, r.exchanges)

-----------------------------------------------------------------------------
(* Request messages and transactions.                                      *)

\* CommonClient.createMessage(tag); now is the formatted time.Now(). The
\* message is element 1, Merchant is element 3.
CommonClient_createMessage(c, tag, now) ==
    LET t1 == CreateText(<<Element(tag, 0)>>, 1, "createDateTimestamp", now)
        t2 == CreateElement(t1, 1, "Merchant")
        merchant == Len(t2)
        t3 == CreateText(t2, merchant, "merchantID", c.MerchantID)
    IN  CreateText(t3, merchant, "subID", c.SubID)

\* IDealClient.createMessage
IDealClient_createMessage(c, tag, now) ==
    LET msg == CommonClient_createMessage(c, tag, now)
        m1 == CreateAttr(msg, 1, "xmlns", "http://www.idealdesk.com/ideal/messages/mer-acq/3.3.1")
    IN  CreateAttr(m1, 1, "version", "3.3.1")

\* IDINClient.createMessage
IDINClient_createMessage(c, tag, now) ==
    LET msg == CommonClient_createMessage(c, tag, now)
        m1 == CreateAttr(msg, 1, "xmlns",
                  "http://www.betaalvereniging.nl/iDx/messages/Merchant-Acquirer/1.0.0")
        m2 == CreateAttr(m1, 1, "version", "1.0.0")
    IN  CreateAttr(m2, 1, "productID", "NL:BVN:BankID:1.0")

\* The message of TransactionStatus: createMessage("AcquirerStatusReq") and
\* Transaction/transactionID.
StatusReq(msg, trxid) ==
    LET m1 == CreateElement(msg, 1, "Transaction")
    IN  CreateText(m1, Len(m1), "transactionID", trxid)

Digit(d) == <<"0", "1", "2", "3", "4", "5", "6", "7", "8", "9">>[d + 1]

\* strconv.Itoa
RECURSIVE Itoa(_)
Itoa(n) ==
    IF n < 0 THEN "-" \o Itoa(0 - n)
    ELSE IF n < 10 THEN Digit(n)
    ELSE Itoa(n \div 10) \o Digit(n % 10)

\* A builder that leaves Issuer where CreateElement put it, after Merchant.
WithIssuer_Appended(c, msg, issuer) ==
    LET merchantEl == FindElement(msg, 1, Abs(<<"Merchant">>))
        m1 == CreateText(msg, merchantEl, "merchantReturnURL", c.ReturnURL)
        issuerEl == Len(m1) + 1
        m2 == CreateElement(m1, 1, "Issuer")
    IN  CreateText(m2, issuerEl, "issuerID", issuer)

\* The part NewTransaction has in both clients (lines 140-144 and 215-219):
\* merchantReturnURL under Merchant, the Issuer element, moved before Merchant.
WithIssuer(c, msg, issuer) ==
    LET merchantEl == FindElement(msg, 1, Abs(<<"Merchant">>))
        m1 == CreateText(msg, merchantEl, "merchantReturnURL", c.ReturnURL)
        issuerEl == Len(m1) + 1
        m2 == CreateElement(m1, 1, "Issuer")
        m3 == CreateText(m2, issuerEl, "issuerID", issuer)
    IN  InsertChild(m3, 1, merchantEl, issuerEl)

Transaction(variant, msg) ==
    [variant |-> variant, msg |-> msg, issuerAuthenticationURL |-> "", transactionID |-> ""]

\* IDealClient.NewTransaction
IDealClient_NewTransaction(c, issuer, purchaseID, amount, description, entranceCode, now) ==
    LET m1 == WithIssuer(c, IDealClient_createMessage(c, "AcquirerTrxReq", now), issuer)
        transaction == Len(m1) + 1
        m2 == CreateElement(m1, 1, "Transaction")
        m3 == CreateTexts(m2, transaction,
                  <<"purchaseID", "amount", "currency", "language", "description", "entranceCode">>,
                  <<purchaseID, amount, "EUR", "nl", description, entranceCode>>)
    IN  Transaction("iDeal", m3)

RECURSIVE CreateAttrs(_, _, _)
CreateAttrs(t, e, attrs) ==
    IF attrs = <<>> THEN t
    ELSE CreateAttrs(CreateAttr(t, e, Head(attrs)[1], Head(attrs)[2]), e, Tail(attrs))

\* IDINClient.NewTransaction
IDINClient_NewTransaction(c, issuer, entranceCode, id, attributes, now) ==
    LET m1 == WithIssuer(c, IDINClient_createMessage(c, "AcquirerTrxReq", now), issuer)
        transaction == Len(m1) + 1
        m2 == CreateElement(m1, 1, "Transaction")
        m3 == CreateTexts(m2, transaction, <<"language", "entranceCode">>,
                          <<"nl", entranceCode>>)
        container == Len(m3) + 1
        m4 == CreateElement(m3, transaction, "container")
        samlAuthRequest == Len(m4) + 1
        m5 == CreateElement(m4, container, "samlp:AuthnRequest")
        m6 == CreateAttrs(m5, samlAuthRequest,
                  << <<"xmlns:samlp", "urn:oasis:names:tc:SAML:2.0:protocol">>,
                     <<"xmlns:saml", "urn:oasis:names:tc:SAML:2.0:assertion">>,
                     <<"ID", id>>,
                     <<"Version", "2.0">>,
                     <<"IssueInstant",
                       m5[FindElement(m5, 1, Abs(<<"createDateTimestamp">>))].text>>,
                     <<"ProtocolBinding", "nl:bvn:bankid:1.0:protocol:iDx">>,
                     <<"AssertionConsumerServiceURL", c.ReturnURL>>,
                     <<"AttributeConsumingServiceIndex", Itoa(attributes)>> >>)
        m7 == CreateText(m6, samlAuthRequest, "saml:Issuer", c.MerchantID)
        context == Len(m7) + 1
        m8 == CreateElement(m7, samlAuthRequest, "samlp:RequestedAuthnContext")
        m9 == CreateAttr(m8, context, "Comparison", "minimum")
    IN  Transaction("iDIN", CreateText(m9, context, "saml:AuthnContextClassRef",
                                       "nl:bvn:bankid:1.0:loa3"))

\* Start from the answer r of request on (lines 165-179 and 247-258, the same
\* text): [stores, out], the assignments to fields of the transaction the
\* call makes, in the order it makes them, and what the call did.
StartAfter(c, t, r) ==
    IF r.panic THEN [stores |-> <<>>, out |-> Outcome(Panic(r.why), FALSE, r.exchanges)]
    ELSE IF r.err # NoError
    THEN [stores |-> <<>>, out |-> Outcome(Return(<<>>, r.err), FALSE, r.exchanges)]
    ELSE LET v == validateMessage(c, r.doc)
             urlEl == FindElement(v.t, v.e, Abs(<<"Issuer", "issuerAuthenticationURL">>))
             idEl == FindElement(v.t, v.e, Abs(<<"Transaction", "transactionID">>))
             url == <<"issuerAuthenticationURL", v.t[urlEl].text>>
         IN  IF v.err # NoError
             THEN [stores |-> <<>>, out |-> Outcome(Return(<<>>, v.err), TRUE, r.exchanges)]
             ELSE IF urlEl = 0
             THEN [stores |-> <<>>, out |-> Outcome(Panic(NilDeref), TRUE, r.exchanges)]
             ELSE IF idEl = 0
             THEN [stores |-> <<url>>, out |-> Outcome(Panic(NilDeref), TRUE, r.exchanges)]
             ELSE [stores |-> <<url, <<"transactionID", v.t[idEl].text>> >>,
                   out |-> Outcome(Return(<<>>, NoError), TRUE, r.exchanges)]

\* IDealTransaction.Start
IDealTransaction_Start(c, t, http) == StartAfter(c, t, IDealClient_request(c, http))

\* A Start that refuses a message without attributes or identifier.
IDINTransaction_Start_Refusing(c, t, http) ==
    LET a == FindElement(t.msg, 1, Abs(<<"Transaction", "container", "samlp:AuthnRequest">>))
    IN  IF \/ SelectAttrValue(t.msg, a, "AttributeConsumingServiceIndex", "") = "0"
           \/ SelectAttrValue(t.msg, a, "ID", "") = ""
        THEN [stores |-> <<>>,
              out |-> Outcome(Return(<<>>, Error("idin: invalid request")), FALSE, 0)]
        ELSE StartAfter(c, t, IDINClient_request(c, http))

\* IDINTransaction.Start
IDINTransaction_Start(c, t, http) == StartAfter(c, t, IDINClient_request(c, http))

-----------------------------------------------------------------------------
(* Inputs: the client configurations, the arguments of the calls and the   *)
(* exchanges the transport can make.                                       *)

Merchant ==
    [BaseURL |-> "https://bank.example/idx", MerchantID |-> "0012345", SubID |-> "0",
     ReturnURL |-> "https://shop.example/return", PrivateKey |-> "merchant.key",
     AcquirerCert |-> "acquirer"]

Clients ==
    {Merchant,
     [Merchant EXCEPT !.MerchantID = "", !.ReturnURL = ""],
     [Merchant EXCEPT !.BaseURL = BadURL]}

Times == {"2026-10-30T12:00:00Z"}

TrxIds == {"TX1", "TX2"}

NoExchange == Response(0, "", Garbage)

SystemError == ErrorResTree("SO1000", "System error", "...", "Something went wrong")

ErrorBodies ==
    {Body(SystemError, sig) : sig \in Sigs}
    \cup {Body(ErrorResTree("AP2910", "", "Field generating error", Absent), Unsigned)}

\* The exchanges in which the acquirer answers with one of bodies, or with an
\* error envelope, or with no document, or not at all.
Exchanges(bodies) ==
    {NetErr, Response(500, "500 Internal Server Error", Body(SystemError, Unsigned))}
    \cup {Response(200, "200 OK", b) : b \in bodies \cup ErrorBodies \cup {Garbage, EmptyDoc}}

\* With a BaseURL that does not parse nothing is exchanged.
Delivered(c, exchanges) == IF NewRequestFails(c.BaseURL) THEN {NoExchange} ELSE exchanges

CountryNames == {"Netherlands", "Belgium"}

\* The country lists of the directory responses: up to MaxCountries countries,
\* the i-th with one of the names and the first k issuers of IssuerPool[i].
DirectoryInputs ==
    UNION {{[i \in 1..n |-> [name |-> f[i][1], issuers |-> SubSeq(IssuerPool[i], 1, f[i][2])]] :
               f \in [1..n -> CountryNames \X (0..MaxIssuers)]} : n \in 0..MaxCountries}

DirectoryBodies ==
    {Body(DirectoryResTree(cs), sig) : cs \in DirectoryInputs, sig \in Sigs}

Echoes == TrxIds \cup {Absent}

IDealStatusTexts ==
    {"Success", "Cancelled", "Expired", "Failure", "Open", "", "InvalidStatus", "success", Absent}

IDealStatusBodies ==
    {Body(IDealStatusTree(wrap, echo, status, payload), sig) :
        wrap \in BOOLEAN, echo \in Echoes, status \in IDealStatusTexts,
        payload \in BOOLEAN, sig \in Sigs}

IDINStatusValues ==
    {SAMLStatus(x) : x \in {"Success", "Cancelled", "Expired", "Failure", "Open", "Pending"}}
    \cup {"Success", Absent, NoStatusCode}

TokenLists == UNION {[1..n -> Tokens] : n \in 0..MaxAttrs}

IDINStatusBodies ==
    {Body(IDINStatusTree(wrap, echo, value, tokens), sig) :
        wrap \in BOOLEAN, echo \in Echoes, value \in IDINStatusValues,
        tokens \in TokenLists, sig \in Sigs}

AuthenticationURL == "https://issuer.example/auth?trx=1"

TrxBodies ==
    {Body(TrxResTree(url, id), sig) :
        url \in {AuthenticationURL, Absent}, id \in {"TX1", Absent}, sig \in Sigs}

\* The few responses of the specification with transactions.
SpecExample ==
    << [name |-> "Netherlands", issuers |-> SubSeq(IssuerPool[1], 1, 2)],
       [name |-> "Belgium", issuers |-> SubSeq(IssuerPool[2], 1, 1)] >>

FewDirectoryBodies == {Body(DirectoryResTree(SpecExample), sig) : sig \in Sigs}

FewIDealStatusBodies ==
    {Body(IDealStatusTree(FALSE, "TX1", status, TRUE), sig) :
        status \in {"Success", "Open"}, sig \in {SigAcquirer, SigOther}}

FewIDINStatusBodies ==
    {Body(IDINStatusTree(TRUE, "TX1", SAMLStatus(x), <<"enc:initials">>), sig) :
        x \in {"Success", "Open"}, sig \in {SigAcquirer, SigTampered}}

-----------------------------------------------------------------------------
(* The state: the client configuration, the transactions made so far, the  *)
(* position of every goroutine that uses the client, and the call that     *)
(* returned last, with what it was given and what it did.                  *)

Call(op, variant, trxid, handle, msg, http, out) ==
    [op |-> op, variant |-> variant, trxid |-> trxid, handle |-> handle, msg |-> msg,
     http |-> http, ret |-> out.ret, validated |-> out.validated,
     exchanges |-> out.exchanges]

\* No call has just returned: the callers go on.
Idle == Call("none", "", "", 0, <<>>, NoExchange, Outcome(Return(<<>>, NoError), FALSE, 0))

\* Where a goroutine is: outside the client's methods ("idle"), in request,
\* where it waits for the acquirer ("request"), or in Start between its
\* assignments ("store", with the assignments left, the response and what the
\* call is going to return).
At(at, op, variant, trxid, handle, stores, http, out) ==
    [at |-> at, op |-> op, variant |-> variant, trxid |-> trxid, handle |-> handle,
     stores |-> stores, http |-> http, out |-> out]

Resting == At("idle", "none", "", "", 0, <<>>, NoExchange, Outcome(Return(<<>>, NoError), FALSE, 0))

InRequest(op, variant, trxid, handle) ==
    At("request", op, variant, trxid, handle, <<>>, NoExchange,
       Outcome(Return(<<>>, NoError), FALSE, 0))

Goroutines == DOMAIN pc

\* One goroutine uses the client.
Init ==
    /\ client \in Clients
    /\ handles = <<>>
    /\ pc = [g \in {"g1"} |-> Resting]
    /\ call = Idle

\* Two goroutines share the client and its transactions.
InitConcurrent ==
    /\ client = Merchant
    /\ handles = <<>>
    /\ pc = [g \in {"g1", "g2"} |-> Resting]
    /\ call = Idle

\* The caller has seen what the call returned and goes on.
Continue ==
    /\ call # Idle
    /\ call' = Idle
    /\ UNCHANGED <<client, handles, pc>>

\* Goroutine g calls a method that sends a message: it builds and signs the
\* message and waits in http.DefaultClient.Do.
Enter(g, op, variant, trxid, handle) ==
    /\ call = Idle
    /\ pc[g] = Resting
    /\ pc' = [pc EXCEPT ![g] = InRequest(op, variant, trxid, handle)]
    /\ UNCHANGED <<client, handles, call>>

\* Goroutine g is in request of the method.
Waits(g, op, variant) ==
    /\ call = Idle
    /\ pc[g].at = "request"
    /\ pc[g].op = op
    /\ pc[g].variant = variant

\* The method returns in goroutine g.
Leave(g, msg, http, out) ==
    /\ call' = Call(pc[g].op, pc[g].variant, pc[g].trxid, pc[g].handle, msg, http, out)
    /\ pc' = [pc EXCEPT ![g] = Resting]
    /\ UNCHANGED client

IDealDirectoryRequest(g, exchanges) ==
    \/ Enter(g, "DirectoryRequest", "iDeal", "", 0)
    \/ /\ Waits(g, "DirectoryRequest", "iDeal")
       /\ \E http \in Delivered(client, exchanges), now \in Times :
            Leave(g, IDealClient_createMessage(client, "DirectoryReq", now), http,
                  IDealClient_DirectoryRequest(client, http))
       /\ UNCHANGED handles

IDINDirectoryRequest(g, exchanges) ==
    \/ Enter(g, "DirectoryRequest", "iDIN", "", 0)
    \/ /\ Waits(g, "DirectoryRequest", "iDIN")
       /\ \E http \in Delivered(client, exchanges), now \in Times :
            Leave(g, IDINClient_createMessage(client, "DirectoryReq", now), http,
                  IDINClient_DirectoryRequest(client, http))
       /\ UNCHANGED handles

IDealTransactionStatusCall(g, trxids, exchanges) ==
    \/ \E trxid \in trxids : Enter(g, "TransactionStatus", "iDeal", trxid, 0)
    \/ /\ Waits(g, "TransactionStatus", "iDeal")
       /\ \E http \in Delivered(client, exchanges), now \in Times :
            Leave(g, StatusReq(IDealClient_createMessage(client, "AcquirerStatusReq", now),
                               pc[g].trxid),
                  http, IDealClient_TransactionStatus(client, pc[g].trxid, http))
       /\ UNCHANGED handles

IDINTransactionStatusCall(g, trxids, exchanges) ==
    \/ \E trxid \in trxids : Enter(g, "TransactionStatus", "iDIN", trxid, 0)
    \/ /\ Waits(g, "TransactionStatus", "iDIN")
       /\ \E http \in Delivered(client, exchanges), now \in Times :
            Leave(g, StatusReq(IDINClient_createMessage(client, "AcquirerStatusReq", now),
                               pc[g].trxid),
                  http, IDINClient_TransactionStatus(client, pc[g].trxid, http))
       /\ UNCHANGED handles

\* NewTransaction builds a message and exchanges nothing: it is one step.
Created(g, t) ==
    /\ call = Idle
    /\ pc[g] = Resting
    /\ Len(handles) < MaxHandles
    /\ handles' = Append(handles, t)
    /\ call' = Call("NewTransaction", t.variant, "", Len(handles) + 1, t.msg, NoExchange,
                    Outcome(Return(<<>>, NoError), FALSE, 0))
    /\ UNCHANGED <<client, pc>>

IDealNewTransaction(g) ==
    \E issuer \in {"INGBNL2A"}, amount \in {"1.00"}, now \in Times :
        Created(g, IDealClient_NewTransaction(client, issuer, "P1", amount, "order 1", "e1", now))

\* The (id, attributes) of the iDIN transactions: a usual request, one without
\* identifier and one that asks for no attribute.
IDINRequests ==
    {<<"ID1", IDINServiceIDBIN + IDINServiceIDName>>,
     <<"", IDINServiceIDBIN + IDINServiceIDName>>,
     <<"ID1", 0>>}

IDINNewTransaction(g, requests) ==
    \E r \in requests, now \in Times :
        Created(g, IDINClient_NewTransaction(client, "INGBNL2A", "e1", r[1], r[2], now))

\* A Start that keeps the two fields in one place for all the transactions of
\* its variant.
Store_Shared(hs, h, st) ==
    [i \in 1..Len(hs) |->
        IF hs[i].variant = hs[h].variant THEN [hs[i] EXCEPT ![st[1]] = st[2]] ELSE hs[i]]

\* One assignment st = <<field, value>> of Start to its transaction, hs[h]
\* (part_000:176 and 177, part_001:255 and 256).
Store(hs, h, st) == [hs EXCEPT ![h] = [@ EXCEPT ![st[1]] = st[2]]]

\* Start in goroutine g goes on with the assignments in stores: it makes the
\* first one; after the last one the call ends with out (a panic that
\* follows an assignment is part of its step).
Stores(g, http, stores, out) ==
    LET h == pc[g].handle
    IN  /\ handles' = IF stores = <<>> THEN handles ELSE Store(handles, h, Head(stores))
        /\ IF Len(stores) <= 1
           THEN Leave(g, handles[h].msg, http, out)
           ELSE /\ pc' = [pc EXCEPT ![g] = At("store", "Start", pc[g].variant, "", h,
                                              Tail(stores), http, out)]
                /\ UNCHANGED <<client, call>>

\* The goroutine is between the assignments of a Start.
Storing(g, variant) ==
    /\ call = Idle
    /\ pc[g].at = "store"
    /\ pc[g].variant = variant

IDealStart(g, exchanges) ==
    \/ \E h \in 1..Len(handles) :
        /\ handles[h].variant = "iDeal"
        /\ Enter(g, "Start", "iDeal", "", h)
    \/ /\ Waits(g, "Start", "iDeal")
       /\ \E http \in Delivered(client, exchanges) :
            LET s == IDealTransaction_Start(client, handles[pc[g].handle], http)
            IN  Stores(g, http, s.stores, s.out)
    \/ /\ Storing(g, "iDeal")
       /\ Stores(g, pc[g].http, pc[g].stores, pc[g].out)

IDINStart(g, exchanges) ==
    \/ \E h \in 1..Len(handles) :
        /\ handles[h].variant = "iDIN"
        /\ Enter(g, "Start", "iDIN", "", h)
    \/ /\ Waits(g, "Start", "iDIN")
       /\ \E http \in Delivered(client, exchanges) :
            LET s == IDINTransaction_Start(client, handles[pc[g].handle], http)
            IN  Stores(g, http, s.stores, s.out)
    \/ /\ Storing(g, "iDIN")
       /\ Stores(g, pc[g].http, pc[g].stores, pc[g].out)

\* The client with its transactions, used by one goroutine.
Next ==
    \E g \in Goroutines :
        \/ IDealDirectoryRequest(g, Exchanges(FewDirectoryBodies))
        \/ IDINDirectoryRequest(g, Exchanges(FewDirectoryBodies))
        \/ IDealTransactionStatusCall(g, {"TX1"}, Exchanges(FewIDealStatusBodies))
        \/ IDINTransactionStatusCall(g, {"TX1"}, Exchanges(FewIDINStatusBodies))
        \/ IDealNewTransaction(g)
        \/ IDINNewTransaction(g, IDINRequests)
        \/ IDealStart(g, Exchanges(TrxBodies))
        \/ IDINStart(g, Exchanges(TrxBodies))
        \/ Continue

Spec == Init /\ [][Next]_vars

\* The operations that interpret a response, over all the responses above.
NextResponses ==
    \E g \in Goroutines :
        \/ IDealDirectoryRequest(g, Exchanges(DirectoryBodies))
        \/ IDINDirectoryRequest(g, Exchanges(DirectoryBodies))
        \/ IDealTransactionStatusCall(g, TrxIds, Exchanges(IDealStatusBodies))
        \/ IDINTransactionStatusCall(g, TrxIds, Exchanges(IDINStatusBodies))
        \/ Continue

SpecResponses == Init /\ [][NextResponses]_vars

\* The answers to the calls of two goroutines: a transport error, and for
\* every operation a response of the acquirer; for the Start of iDeal two
\* that differ in URL and identifier, for the Start of iDIN one without the
\* identifier.
Signed(tree) == {Response(200, "200 OK", Body(tree, SigAcquirer))}

DirectoryAnswers == {NetErr} \cup Signed(DirectoryResTree(SpecExample))

IDealStatusAnswers == {NetErr} \cup Signed(IDealStatusTree(FALSE, "TX1", "Open", FALSE))

IDINStatusAnswers == {NetErr} \cup Signed(IDINStatusTree(TRUE, "TX1", SAMLStatus("Open"), <<>>))

IDealStartAnswers ==
    {NetErr} \cup Signed(TrxResTree(AuthenticationURL, "TX1"))
             \cup Signed(TrxResTree("https://issuer.example/auth?trx=2", "TX2"))

IDINStartAnswers ==
    {NetErr} \cup Signed(TrxResTree(AuthenticationURL, "TX1"))
             \cup Signed(TrxResTree(AuthenticationURL, Absent))

\* The client with its transactions, shared by the goroutines.
NextConcurrent ==
    \E g \in Goroutines :
        \/ IDealDirectoryRequest(g, DirectoryAnswers)
        \/ IDINDirectoryRequest(g, DirectoryAnswers)
        \/ IDealTransactionStatusCall(g, {"TX1"}, IDealStatusAnswers)
        \/ IDINTransactionStatusCall(g, {"TX1"}, IDINStatusAnswers)
        \/ IDealNewTransaction(g)
        \/ IDINNewTransaction(g, {<<"ID1", IDINServiceIDBIN + IDINServiceIDName>>})
        \/ IDealStart(g, IDealStartAnswers)
        \/ IDINStart(g, IDINStartAnswers)
        \/ Continue

SpecConcurrent == InitConcurrent /\ [][NextConcurrent]_vars

-----------------------------------------------------------------------------
(* Reading a call for the properties. The response is read here child by   *)
(* child from its root element, not with the paths of the code.            *)

\* The first child of e with the tag, or 0.
Kid(t, e, tag) ==
    LET ks == SelectSeq(t[e].kids, LAMBDA x : t[x].tag = tag)
    IN  IF ks = <<>> THEN 0 ELSE ks[1]

RECURSIVE Descend(_, _, _)
Descend(t, e, tags) ==
    IF e = 0 \/ tags = <<>> THEN e ELSE Descend(t, Kid(t, e, Head(tags)), Tail(tags))

TextAt(t, e, tags) == t[Descend(t, e, tags)].text

Has(t, e, tags) == Descend(t, e, tags) # 0

\* The transport delivered a document with a root element to call k.
Answered(k) ==
    /\ k.exchanges = 1
    /\ ~k.http.neterr
    /\ k.http.code = 200
    /\ k.http.body.wellformed
    /\ k.http.body.tree[1].kids # <<>>

Tree(k) == k.http.body.tree

RootEl(k) == Tree(k)[1].kids[1]

IsErrorEnvelope(k) == Answered(k) /\ Tree(k)[RootEl(k)].tag = "AcquirerErrorRes"

SignatureVerifies(k) == k.http.body.signer = client.AcquirerCert /\ k.http.body.intact

\* The call got a response that is no error envelope and whose signature verifies.
ValidatedResponse(k) == Answered(k) /\ ~IsErrorEnvelope(k) /\ SignatureVerifies(k)

ResponseOps == {"DirectoryRequest", "TransactionStatus", "Start"}

\* Where each variant looks for the transaction of a status response.
TransactionOf(k) ==
    IF k.variant = "iDeal" THEN <<"Transaction">> ELSE <<"AcquirerStatusRes", "Transaction">>

HasEcho(k) == Has(Tree(k), RootEl(k), TransactionOf(k) \o <<"transactionID">>)

Echo(k) == TextAt(Tree(k), RootEl(k), TransactionOf(k) \o <<"transactionID">>)

\* A status call with a validated response that echoes the identifier asked for.
MatchingStatus(k, variant) ==
    /\ k.op = "TransactionStatus"
    /\ k.variant = variant
    /\ ValidatedResponse(k)
    /\ HasEcho(k)
    /\ Echo(k) = k.trxid

NoResult(k) == k.ret.kind # "ok" /\ k.ret.val = <<>>

-----------------------------------------------------------------------------
\* C1: in both TransactionStatus methods a validated response whose echoed
\* transactionID differs from the one asked for makes the call return the
\* mismatch error and no result, whatever the status in the response.
C1_MismatchIsAnError ==
    (/\ call.op = "TransactionStatus"
     /\ ValidatedResponse(call)
     /\ HasEcho(call)
     /\ Echo(call) # call.trxid)
    => /\ call.ret.kind = "err"
       /\ call.ret.val = <<>>
       /\ call.ret.err = Error("idx: returned transaction ID does not match")

\* "TX1" asked for, "TX2" echoed with status Success and the payload.
C1_Witness ==
    /\ call.op = "TransactionStatus"
    /\ call.variant = "iDeal"
    /\ ValidatedResponse(call)
    /\ call.trxid = "TX1"
    /\ HasEcho(call)
    /\ Echo(call) = "TX2"
    /\ Has(Tree(call), RootEl(call), <<"Transaction", "status">>)
    /\ TextAt(Tree(call), RootEl(call), <<"Transaction", "status">>) = "Success"
    /\ Has(Tree(call), RootEl(call), <<"Transaction", "consumerName">>)
    /\ call.ret.kind = "err"

-----------------------------------------------------------------------------
ErrorText(k, field) == TextAt(Tree(k), RootEl(k), <<"Error", field>>)

CompleteEnvelope(k) ==
    /\ IsErrorEnvelope(k)
    /\ \A i \in 1..Len(ErrorFields) : Has(Tree(k), RootEl(k), <<"Error", ErrorFields[i]>>)

\* C2: in every operation a document with the root AcquirerErrorRes (and its
\* four texts) makes the call return the AcquirerError with exactly these
\* texts and nothing else, without coming to validate a signature, whoever
\* signed the envelope or nobody.
C2_ErrorEnvelopeFirst ==
    (call.op \in ResponseOps /\ CompleteEnvelope(call))
    => /\ call.ret.kind = "err"
       /\ call.ret.val = <<>>
       /\ call.ret.err = [type |-> "AcquirerError",
                          ErrorCode |-> ErrorText(call, "errorCode"),
                          ErrorMessage |-> ErrorText(call, "errorMessage"),
                          ErrorDetail |-> ErrorText(call, "errorDetail"),
                          ConsumerMessage |-> ErrorText(call, "consumerMessage")]
       /\ ~call.validated

\* An unsigned error envelope answers Start.
C2_Witness ==
    /\ call.op = "Start"
    /\ CompleteEnvelope(call)
    /\ call.http.body.signer = "none"
    /\ call.ret.kind = "err"
    /\ call.ret.err.type = "AcquirerError"
    /\ call.ret.err.ErrorCode = "SO1000"
    /\ call.ret.err.ConsumerMessage = "Something went wrong"

-----------------------------------------------------------------------------
\* C3: a response that is no error envelope and whose signature does not
\* verify against the acquirer certificate makes the operation fail: it
\* returns an error and no result and leaves every transaction as it was;
\* and an operation returns a result only from a response that verifies.
C3_UnverifiedGivesNothing ==
    [][/\ (/\ call'.op \in ResponseOps
           /\ Answered(call')
           /\ ~IsErrorEnvelope(call')
           /\ ~SignatureVerifies(call'))
          => (call'.ret.kind = "err" /\ call'.ret.val = <<>> /\ handles' = handles)
       /\ (call'.op \in ResponseOps /\ call'.ret.kind = "ok")
          => (ValidatedResponse(call') /\ call'.validated)]_vars

\* A complete transaction response signed with another certificate answers
\* Start, and the transaction has neither URL nor identifier.
C3_Witness ==
    /\ call.op = "Start"
    /\ Answered(call)
    /\ ~IsErrorEnvelope(call)
    /\ call.http.body.signer = "other"
    /\ Has(Tree(call), RootEl(call), <<"Issuer", "issuerAuthenticationURL">>)
    /\ Has(Tree(call), RootEl(call), <<"Transaction", "transactionID">>)
    /\ call.ret.kind = "err"
    /\ handles[call.handle].issuerAuthenticationURL = ""
    /\ handles[call.handle].transactionID = ""

-----------------------------------------------------------------------------
Kids(t, e, tag) == SelectSeq(t[e].kids, LAMBDA x : t[x].tag = tag)

\* The countries of a directory response, and the issuers nested under one.
CountryEls(k) == Kids(Tree(k), Descend(Tree(k), RootEl(k), <<"Directory">>), "Country")

NestedIssuers(t, countryEl) ==
    LET is == Kids(t, countryEl, "Issuer")
    IN  [i \in 1..Len(is) |->
            [IssuerID |-> TextAt(t, is[i], <<"issuerID">>),
             IssuerName |-> TextAt(t, is[i], <<"issuerName">>)]]

\* The issuers nested under the countries of the name, in response order.
RECURSIVE IssuersNamed(_, _, _)
IssuersNamed(t, countryEls, name) ==
    IF countryEls = <<>> THEN <<>>
    ELSE (IF TextAt(t, Head(countryEls), <<"countryNames">>) = name
          THEN NestedIssuers(t, Head(countryEls)) ELSE <<>>)
         \o IssuersNamed(t, Tail(countryEls), name)

\* The mapping the directory response stands for: a key for each country name
\* with issuers, holding the issuers nested under the countries of that name.
GroupedByCountry(k) ==
    LET t == Tree(k)
        cs == CountryEls(k)
        names == {TextAt(t, cs[i], <<"countryNames">>) : i \in 1..Len(cs)}
    IN  [n \in {x \in names : IssuersNamed(t, cs, x) # <<>>} |-> IssuersNamed(t, cs, n)]

IsDirectoryResponse(k) ==
    /\ k.op = "DirectoryRequest"
    /\ ValidatedResponse(k)
    /\ Tree(k)[RootEl(k)].tag = "DirectoryRes"

\* C4: the Directory returned for a validated directory response has one key
\* per country name, and each key holds exactly the issuers nested under that
\* country in the response, in response order, none merged in from another
\* country, none twice, none dropped.
C4_DirectoryGrouping ==
    IsDirectoryResponse(call)
    => /\ call.ret.kind = "ok"
       /\ call.ret.val.Issuers = GroupedByCountry(call)

-----------------------------------------------------------------------------
StatusTexts == {StatusString(s) : s \in {Success, Cancelled, Expired, Failure, Open}}

HasStatusText(k) == Has(Tree(k), RootEl(k), <<"Transaction", "status">>)

StatusText(k) == TextAt(Tree(k), RootEl(k), <<"Transaction", "status">>)

HasPayload(k) ==
    \A i \in 1..Len(PayloadTags) : Has(Tree(k), RootEl(k), <<"Transaction", PayloadTags[i]>>)

PayloadText(k, i) == TextAt(Tree(k), RootEl(k), <<"Transaction", PayloadTags[i]>>)

\* C5: in IDealClient.TransactionStatus, with a validated response that echoes
\* the identifier, the five status texts give a result with the status of the
\* same name (Success when the payload the call reads is there), every other
\* text gives the invalid-status error and no result, and no result has the
\* status InvalidStatus.
C5_StatusTextMapping ==
    /\ (MatchingStatus(call, "iDeal") /\ HasStatusText(call))
       => IF StatusText(call) \in StatusTexts
          THEN (StatusText(call) # "Success" \/ HasPayload(call))
               => /\ call.ret.kind = "ok"
                  /\ StatusString(call.ret.val.Status) = StatusText(call)
          ELSE /\ call.ret.kind = "err"
               /\ call.ret.val = <<>>
               /\ call.ret.err = Error("ideal: invalid status: " \o StatusText(call))
    /\ (call.op = "TransactionStatus" /\ call.ret.kind = "ok")
       => call.ret.val.Status \in {Success, Cancelled, Expired, Failure, Open}

\* The status text "InvalidStatus" itself is refused.
C5_Witness ==
    /\ MatchingStatus(call, "iDeal")
    /\ HasStatusText(call)
    /\ StatusText(call) = "InvalidStatus"
    /\ call.ret.kind = "err"

-----------------------------------------------------------------------------
\* C6: a status result carries its payload only with Status = Success: the
\* iDeal result then holds the five texts of the response, with any other
\* status its five fields are empty even when the response has them; the
\* iDIN result has no Attributes mapping unless Status = Success.
C6_PayloadOnlyOnSuccess ==
    (call.op = "TransactionStatus" /\ call.ret.kind = "ok")
    => IF call.variant = "iDeal"
       THEN IF call.ret.val.Status = Success
            THEN call.ret.val =
                     IDealTransactionStatus(Success, PayloadText(call, 1), PayloadText(call, 2),
                         PayloadText(call, 3), PayloadText(call, 4), PayloadText(call, 5))
            ELSE /\ call.ret.val.ConsumerName = ""
                 /\ call.ret.val.ConsumerIBAN = ""
                 /\ call.ret.val.ConsumerBIC = ""
                 /\ call.ret.val.Amount = ""
                 /\ call.ret.val.Currency = ""
       ELSE call.ret.val.Status # Success
            => (call.ret.val.Attributes.nil /\ DOMAIN call.ret.val.Attributes.m = {})

\* Status "Open" in a response that has the five payload elements.
C6_Witness ==
    /\ MatchingStatus(call, "iDeal")
    /\ HasStatusText(call)
    /\ StatusText(call) = "Open"
    /\ HasPayload(call)
    /\ call.ret.kind = "ok"
    /\ call.ret.val.Status = Open

-----------------------------------------------------------------------------
StatusCodeOf(k) ==
    Descend(Tree(k), RootEl(k),
            <<"AcquirerStatusRes", "Transaction", "container", "Response", "Status", "StatusCode">>)

\* The Value of the StatusCode element, "" when it has none.
StatusValue(k) ==
    LET as == Tree(k)[StatusCodeOf(k)].attr
        vs == {as[i][2] : i \in {j \in 1..Len(as) : as[j][1] = "Value"}}
    IN  IF vs = {} THEN "" ELSE CHOOSE v \in vs : TRUE

HasValue(k) ==
    \E i \in 1..Len(Tree(k)[StatusCodeOf(k)].attr) : Tree(k)[StatusCodeOf(k)].attr[i][1] = "Value"

KnownStatusURIs == {"urn:oasis:names:tc:SAML:2.0:status:" \o x : x \in StatusTexts}

\* C7: in IDINClient.TransactionStatus, with a validated response that echoes
\* the identifier, a StatusCode whose Value is none of the five SAML status
\* URIs, or that has no Value, makes the call return the invalid-status error
\* and no result.
C7_UnknownStatusURI ==
    (/\ MatchingStatus(call, "iDIN")
     /\ StatusCodeOf(call) # 0
     /\ StatusValue(call) \notin KnownStatusURIs)
    => /\ call.ret.kind = "err"
       /\ call.ret.val = <<>>
       /\ call.ret.err = Error("idin: invalid status: " \o StatusValue(call))

\* A StatusCode element without the Value attribute.
C7_Witness ==
    /\ MatchingStatus(call, "iDIN")
    /\ StatusCodeOf(call) # 0
    /\ ~HasValue(call)
    /\ call.ret.kind = "err"
    /\ call.ret.err = Error("idin: invalid status: ")

-----------------------------------------------------------------------------
\* The tags of the children of the message, in document order.
ChildTags(m) == [i \in 1..Len(m[1].kids) |-> m[m[1].kids[i]].tag]

TrxReqOrder == <<"createDateTimestamp", "Issuer", "Merchant", "Transaction">>

\* C8: the message of every transaction NewTransaction made, in both clients
\* and whatever the arguments and the configuration, has the children
\* createDateTimestamp, Issuer, Merchant, Transaction in this order, so one
\* Issuer and one Merchant with Issuer first; the messages of DirectoryRequest
\* and TransactionStatus have no Issuer child.
C8_IssuerBeforeMerchant ==
    /\ \A h \in 1..Len(handles) :
          /\ ChildTags(handles[h].msg) = TrxReqOrder
          /\ \A i \in 1..Len(TrxReqOrder) :
                handles[h].msg[handles[h].msg[1].kids[i]].parent = 1
    /\ call.op = "NewTransaction" => ChildTags(call.msg) = TrxReqOrder
    /\ call.op \in {"DirectoryRequest", "TransactionStatus"}
       => \A i \in 1..Len(ChildTags(call.msg)) : ChildTags(call.msg)[i] # "Issuer"

\* An iDIN transaction made by the client with an empty MerchantID.
C8_Witness ==
    /\ call.op = "NewTransaction"
    /\ call.variant = "iDIN"
    /\ client.MerchantID = ""
    /\ handles[call.handle].msg[1].tag = "AcquirerTrxReq"
    /\ Len(handles[call.handle].msg[1].kids) = 4

-----------------------------------------------------------------------------
\* The value of the attribute of e with the key, "" when there is none.
AttrOf(t, e, key) ==
    LET vs == {t[e].attr[i][2] : i \in {j \in 1..Len(t[e].attr) : t[e].attr[j][1] = key}}
    IN  IF vs = {} THEN "" ELSE CHOOSE v \in vs : TRUE

AuthnRequestOf(m) == Descend(m, 1, <<"Transaction", "container", "samlp:AuthnRequest">>)

\* The message asks for no attribute or has no identifier.
ZeroOrMissing(m) ==
    \/ AttrOf(m, AuthnRequestOf(m), "AttributeConsumingServiceIndex") = "0"
    \/ AttrOf(m, AuthnRequestOf(m), "ID") = ""

IDINStartOf(k) == k.op = "Start" /\ k.variant = "iDIN"

\* C9 as stated: Start on an iDIN transaction made with attributes = 0 or with
\* an empty identifier returns a local validation error and exchanges nothing.
C9_RefusesZeroOrMissing ==
    (IDINStartOf(call) /\ ZeroOrMissing(handles[call.handle].msg))
    => (call.ret.kind = "err" /\ call.exchanges = 0)

\* C9, amended: NewTransaction validates nothing: it returns a transaction
\* also for attributes = 0 and for an empty identifier, and Start on it makes
\* the one exchange of any Start when BaseURL parses and succeeds when the
\* response verifies and has the URL and the identifier.
C9_NoLocalValidation ==
    /\ (call.op = "NewTransaction" /\ call.variant = "iDIN")
       => (call.ret.kind = "ok" /\ AuthnRequestOf(call.msg) # 0)
    /\ (/\ IDINStartOf(call)
        /\ ZeroOrMissing(handles[call.handle].msg)
        /\ ~NewRequestFails(client.BaseURL))
       => /\ call.exchanges = 1
          /\ (/\ ValidatedResponse(call)
              /\ Has(Tree(call), RootEl(call), <<"Issuer", "issuerAuthenticationURL">>)
              /\ Has(Tree(call), RootEl(call), <<"Transaction", "transactionID">>))
             => /\ call.ret.kind = "ok"
                /\ handles[call.handle].transactionID =
                       TextAt(Tree(call), RootEl(call), <<"Transaction", "transactionID">>)

\* Start succeeded on a transaction made with attributes = 0.
C9_Witness ==
    /\ IDINStartOf(call)
    /\ AttrOf(handles[call.handle].msg, AuthnRequestOf(handles[call.handle].msg),
              "AttributeConsumingServiceIndex") = "0"
    /\ call.exchanges = 1
    /\ call.ret.kind = "ok"
    /\ handles[call.handle].transactionID = "TX1"

-----------------------------------------------------------------------------
\* The encrypted attributes of an iDIN status response, in response order.
TokensOf(k) ==
    LET t == Tree(k)
        st == Descend(t, RootEl(k), <<"AcquirerStatusRes", "Transaction", "container",
                                      "Response", "Assertion", "AttributeStatement">>)
        es == IF st = 0 THEN <<>> ELSE Kids(t, st, "EncryptedAttribute")
    IN  [i \in 1..Len(es) |-> TextAt(t, es[i], <<"EncryptedData">>)]

Decrypts(token) == Plaintext(token).key = client.PrivateKey

Readable(token) == Decrypts(token) /\ Plaintext(token).values # <<>>

\* An iDIN status call on the Success path.
SuccessPath(k) ==
    /\ MatchingStatus(k, "iDIN")
    /\ StatusCodeOf(k) # 0
    /\ AttrOf(Tree(k), StatusCodeOf(k), "Value") = "urn:oasis:names:tc:SAML:2.0:status:Success"

\* The first value of the last of the attributes with the name.
ValueNamed(toks, name) ==
    LET last == CHOOSE i \in 1..Len(toks) :
                    /\ Plaintext(toks[i]).name = name
                    /\ \A j \in 1..Len(toks) : Plaintext(toks[j]).name = name => j <= i
    IN  Plaintext(toks[last]).values[1]

\* C10: on the Success path of IDINClient.TransactionStatus the attributes are
\* all or nothing: when one of them does not decrypt the call returns no
\* result (the decryption error, when the ones before it could be read),
\* however many were decrypted before; when all decrypt, the mapping has one
\* entry per attribute name, holding the first value of the attribute (of the
\* last one, when several have the name).
C10_AttributesAllOrNothing ==
    SuccessPath(call)
    => LET toks == TokensOf(call)
           bad == {i \in 1..Len(toks) : ~Decrypts(toks[i])}
       IN  /\ bad # {}
              => /\ NoResult(call)
                 /\ (\A i \in 1..Len(toks) : (\A b \in bad : i < b) => Readable(toks[i]))
                    => /\ call.ret.kind = "err"
                       /\ call.ret.err = Error("xmlenc: decryption failed")
           /\ (\A i \in 1..Len(toks) : Readable(toks[i]))
              => /\ call.ret.kind = "ok"
                 /\ call.ret.val.Status = Success
                 /\ ~call.ret.val.Attributes.nil
                 /\ call.ret.val.Attributes.m =
                        [n \in {Plaintext(toks[i]).name : i \in 1..Len(toks)} |->
                            ValueNamed(toks, n)]

\* One attribute decrypted, the next one does not decrypt.
C10_Witness ==
    /\ SuccessPath(call)
    /\ Len(TokensOf(call)) = 2
    /\ Readable(TokensOf(call)[1])
    /\ ~Decrypts(TokensOf(call)[2])
    /\ call.ret.kind = "err"

-----------------------------------------------------------------------------
\* The call ended in a failure: an error or a panic.
Failed(k) == k.ret.kind # "ok"

\* The transport answered call k with a status code other than 200.
Non200(k) == ~k.http.neterr /\ k.http.code # 200

\* C11: every call of DirectoryRequest, TransactionStatus and Start, of both
\* variants, makes at most one exchange with the acquirer, none when BaseURL
\* does not parse and one otherwise, also when it fails (transport error,
\* non-200 status, error envelope, signature failure, failure to read the
\* response); a status code other than 200 is returned as the error
\* "idx: HTTP error: <status>", before the body is looked at, never as an
\* AcquirerError.
C11_AtMostOneExchange ==
    (call.op \in ResponseOps)
    => /\ call.exchanges = (IF NewRequestFails(client.BaseURL) THEN 0 ELSE 1)
       /\ (call.exchanges = 1 /\ Non200(call))
          => /\ call.ret.kind = "err"
             /\ call.ret.err = Error("idx: HTTP error: " \o call.http.status)
             /\ ~call.validated

\* A Start answered with status 500 and an error envelope as its body.
C11_Witness ==
    /\ call.op = "Start"
    /\ call.exchanges = 1
    /\ Non200(call)
    /\ call.http.body.wellformed
    /\ Tree(call)[Tree(call)[1].kids[1]].tag = "AcquirerErrorRes"
    /\ Failed(call)
    /\ call.ret.err.type = "error"

-----------------------------------------------------------------------------
\* The two fields Start assigns.
Fields(t) == <<t.transactionID, t.issuerAuthenticationURL>>

\* The step is the return of a call of Start.
StartStep == call = Idle /\ call'.op = "Start"

\* C12 as stated: Start is atomic on the two fields of its transaction: after
\* a successful Start both hold the texts of the validated response, a Start
\* that fails (transport error, error envelope, signature failure, a
\* validated response without the URL or without the identifier) returns
\* with both as they were, and no transaction ever holds a URL without an
\* identifier.
C12_StartAtomic ==
    [][/\ StartStep
          => LET h == call'.handle
                 k == call'
             IN  /\ ~Failed(k)
                    => /\ ValidatedResponse(k)
                       /\ Fields(handles'[h]) =
                             <<TextAt(Tree(k), RootEl(k), <<"Transaction", "transactionID">>),
                               TextAt(Tree(k), RootEl(k),
                                      <<"Issuer", "issuerAuthenticationURL">>)>>
                 /\ Failed(k) => Fields(handles'[h]) = Fields(handles[h])
       /\ \A i \in 1..Len(handles') :
            handles'[i].issuerAuthenticationURL # "" => handles'[i].transactionID # ""]_vars

-----------------------------------------------------------------------------
\* Goroutine g takes the step.
Moves(g) == pc'[g] # pc[g]

\* C13: in every interleaving of the calls of the goroutines that share one
\* client, a transaction's identifier and URL are changed only by a step of
\* a Start on that transaction: the steps of DirectoryRequest and
\* TransactionStatus change no transaction, a step of Start changes no other
\* transaction, transactions stay where they are, and no step changes the
\* configuration of the client.
C13_OnlyOwnStart ==
    [][/\ client' = client
       /\ Len(handles') >= Len(handles)
       /\ \A i \in 1..Len(handles) :
            /\ handles'[i].msg = handles[i].msg
            /\ Fields(handles'[i]) # Fields(handles[i])
               => \E g \in Goroutines :
                    pc[g].op = "Start" /\ pc[g].handle = i /\ Moves(g)
       /\ \A g \in Goroutines :
            /\ (pc[g].op \in {"DirectoryRequest", "TransactionStatus"} /\ Moves(g))
               => handles' = handles
            /\ (pc[g].op = "Start" /\ Moves(g))
               => \A i \in 1..Len(handles) : i # pc[g].handle => handles'[i] = handles[i]]_vars

\* TransactionStatus returns while another goroutine is between the two
\* assignments of a Start, a second transaction of the variant is started
\* and a third one is not.
C13_Witness ==
    /\ call.op = "TransactionStatus"
    /\ \E g \in Goroutines, j \in 1..Len(handles) :
        /\ pc[g].at = "store"
        /\ j # pc[g].handle
        /\ handles[j].variant = handles[pc[g].handle].variant
        /\ Fields(handles[pc[g].handle]) = <<"", AuthenticationURL>>
        /\ Fields(handles[j]) = <<"", "">>

====
